---- MODULE Spec2Model ----
(***************************************************************************)
(* A model of the nasdaq-ticker-list pipeline:                             *)
(*   clean_tickers.py   classification, share-class deduplication          *)
(*   enrich_sectors.py  multi-source sector/industry enrichment            *)
(*   shorten_name.py    short-name derivation                              *)
(* Strings are TLC strings; a character is a string of length 1.  A pandas *)
(* NaN / Python None cell is the sentinel NA.  The alphabet of the model   *)
(* is printable ASCII and its only white-space character is the blank.     *)
(***************************************************************************)
EXTENDS Integers, Sequences, FiniteSets, TLC

(***************************************************************************)
(* String primitives (the str methods the scripts call).                   *)
(***************************************************************************)
NA == "<NaN>"

CharAt(s, i) == SubSeq(s, i, i)

UpperChars == "ABCDEFGHIJKLMNOPQRSTUVWXYZ"
LowerChars == "abcdefghijklmnopqrstuvwxyz"
DigitChars == "0123456789"

CharSet(alphabet) == {CharAt(alphabet, i) : i \in 1..Len(alphabet)}

ToLower == [c \in CharSet(UpperChars) |->
              CharAt(LowerChars, CHOOSE i \in 1..Len(UpperChars) : CharAt(UpperChars, i) = c)]
ToUpper == [c \in CharSet(LowerChars) |->
              CharAt(UpperChars, CHOOSE i \in 1..Len(LowerChars) : CharAt(LowerChars, i) = c)]

\* the characters of s, each replaced by its image under f where it has one
RECURSIVE MapChars(_, _)
MapChars(s, f) ==
    IF Len(s) = 0 THEN ""
    ELSE IF Len(s) = 1 THEN (IF s \in DOMAIN f THEN f[s] ELSE s)
    ELSE LET half == Len(s) \div 2
         IN MapChars(SubSeq(s, 1, half), f) \o MapChars(SubSeq(s, half + 1, Len(s)), f)

Lower(s) == MapChars(s, ToLower)
Upper(s) == MapChars(s, ToUpper)

Range(f) == {f[i] : i \in DOMAIN f}

MaxOf(S) == CHOOSE x \in S : \A y \in S : y <= x
MinOf(S) == CHOOSE x \in S : \A y \in S : x <= y

\* s.lstrip(chars) / s.rstrip(chars) / s.strip(chars): chars is a set of characters
LStripChars(s, chars) ==
    LET kept == {i \in 1..Len(s) : CharAt(s, i) \notin chars}
    IN IF kept = {} THEN "" ELSE SubSeq(s, MinOf(kept), Len(s))

RStripChars(s, chars) ==
    LET kept == {i \in 1..Len(s) : CharAt(s, i) \notin chars}
    IN IF kept = {} THEN "" ELSE SubSeq(s, 1, MaxOf(kept))

StripChars(s, chars) == RStripChars(LStripChars(s, chars), chars)

WhiteSpace == {" "}

Strip(s) == StripChars(s, WhiteSpace)

\* s.startswith(lit, i - 1): lit stands in s at position i
LitAt(s, i, lit) == i + Len(lit) - 1 <= Len(s) /\ SubSeq(s, i, i + Len(lit) - 1) = lit

\* Python's `sub in s`
Contains(s, sub) == \E i \in 1..(Len(s) - Len(sub) + 1) : LitAt(s, i, sub)

StartsWith(s, pre) == LitAt(s, 1, pre)

\* s.replace(old, new), left to right, non-overlapping (old is never empty)
RECURSIVE Replace(_, _, _)
Replace(s, old, new) ==
    LET hits == {i \in 1..(Len(s) - Len(old) + 1) : LitAt(s, i, old)}
        i == MinOf(hits)
    IN IF hits = {} THEN s
       ELSE SubSeq(s, 1, i - 1) \o new \o Replace(SubSeq(s, i + Len(old), Len(s)), old, new)

\* s.split(): the maximal runs of non-white-space characters, in order
RECURSIVE Split(_)
Split(s) ==
    LET t == LStripChars(s, WhiteSpace)
        ws == {i \in 1..Len(t) : CharAt(t, i) \in WhiteSpace}
    IN IF t = "" THEN <<>>
       ELSE IF ws = {} THEN <<t>>
       ELSE <<SubSeq(t, 1, MinOf(ws) - 1)>> \o Split(SubSeq(t, MinOf(ws), Len(t)))

\* s.split(" "): every blank separates, empty fields are kept
RECURSIVE SplitBlank(_)
SplitBlank(s) ==
    LET blanks == {i \in 1..Len(s) : CharAt(s, i) = " "}
    IN IF blanks = {} THEN <<s>>
       ELSE <<SubSeq(s, 1, MinOf(blanks) - 1)>>
                \o SplitBlank(SubSeq(s, MinOf(blanks) + 1, Len(s)))

\* " ".join(parts)
RECURSIVE Join(_)
Join(parts) ==
    IF Len(parts) = 0 THEN ""
    ELSE IF Len(parts) = 1 THEN parts[1]
    ELSE parts[1] \o " " \o Join(Tail(parts))

\* re.sub(r"\s+", " ", s)
RECURSIVE CollapseWs(_)
CollapseWs(s) ==
    LET ws == {i \in 1..Len(s) : CharAt(s, i) \in WhiteSpace}
        i == MinOf(ws)
    IN IF ws = {} THEN s
       ELSE SubSeq(s, 1, i - 1) \o " "
                \o CollapseWs(LStripChars(SubSeq(s, i, Len(s)), WhiteSpace))

(***************************************************************************)
(* enrich_sectors.py: norm, norm_lower, normalize_sector_to_allowed        *)
(***************************************************************************)
\* `s if s else None`
NoneIfEmpty(s) == IF s = "" THEN NA ELSE s

norm(s) == IF s = NA THEN NA ELSE NoneIfEmpty(Strip(s))

\* `s.lower() if s else None`
LowerIfAny(s) == IF s = NA THEN NA ELSE Lower(s)

norm_lower(s) == LowerIfAny(norm(s))

keyword_map == <<
    [keys |-> <<"technology", "tech", "software", "semiconductor", "it services", "information technology">>,
     target |-> "Technology"],
    [keys |-> <<"financial", "finance", "bank", "insurance", "capital markets", "asset management", "shell companies">>,
     target |-> "Finance"],
    [keys |-> <<"health", "health care", "healthcare", "biotech", "pharmaceutical", "medical">>,
     target |-> "Health Care"],
    [keys |-> <<"industrial", "industrials", "aerospace", "defense", "machinery", "transportation", "construction">>,
     target |-> "Industrials"],
    [keys |-> <<"energy", "oil", "gas", "coal", "pipelines">>,
     target |-> "Energy"],
    [keys |-> <<"utility", "utilities", "electric", "water", "gas utilities">>,
     target |-> "Utilities"],
    [keys |-> <<"telecom", "telecommunications", "communication services">>,
     target |-> "Telecommunications"],
    [keys |-> <<"real estate", "reit", "property">>,
     target |-> "Real Estate"],
    [keys |-> <<"consumer discretionary", "discretionary", "retail", "automotive", "apparel", "restaurants">>,
     target |-> "Consumer Discretionary"],
    [keys |-> <<"consumer staples", "staples", "food", "beverage", "household">>,
     target |-> "Consumer Staples"],
    [keys |-> <<"basic materials", "materials", "mining", "chemicals", "metals", "forest">>,
     target |-> "Basic Materials"] >>

\* allowed_norm = {norm_lower(a): a for a in allowed_sectors if norm(a)}; allowed_norm[v]:
\* a later label overwrites an earlier one under the same key
AllowedNormGet(v, allowed_sectors) ==
    LET I == {i \in 1..Len(allowed_sectors) :
                 norm(allowed_sectors[i]) # NA /\ norm_lower(allowed_sectors[i]) = v}
    IN IF I = {} THEN NA ELSE allowed_sectors[MaxOf(I)]

\* for a in allowed_sectors: if norm_lower(a) == norm_lower(target): return a
RECURSIVE FirstAllowedFor(_, _, _)
FirstAllowedFor(target, allowed_sectors, i) ==
    IF i > Len(allowed_sectors) THEN NA
    ELSE IF norm_lower(allowed_sectors[i]) = norm_lower(target) THEN allowed_sectors[i]
    ELSE FirstAllowedFor(target, allowed_sectors, i + 1)

\* for keys, target in keyword_map: ... (an entry whose label is not allowed falls through)
RECURSIVE KeywordLookup(_, _, _)
KeywordLookup(v, allowed_sectors, k) ==
    IF k > Len(keyword_map) THEN NA
    ELSE LET e == keyword_map[k]
             hit == \E j \in 1..Len(e.keys) : Contains(v, e.keys[j])
             a == IF hit THEN FirstAllowedFor(e.target, allowed_sectors, 1) ELSE NA
         IN IF a # NA THEN a ELSE KeywordLookup(v, allowed_sectors, k + 1)

\* set(t for t in x.replace("&", " ").replace("/", " ").split() if t)
SectorTokens(x) == Range(Split(Replace(Replace(x, "&", " "), "/", " ")))

\* the scoring loop with `score >= best_score`: the last maximum wins
RECURSIVE BestOverlapLast(_, _, _, _, _)
BestOverlapLast(v_tokens, allowed_sectors, i, best, best_score) ==
    IF i > Len(allowed_sectors) THEN [best |-> best, best_score |-> best_score]
    ELSE LET an == norm_lower(allowed_sectors[i])
             score == IF an = NA THEN 0
                      ELSE Cardinality(v_tokens \cap SectorTokens(an))
         IN IF an # NA /\ score >= best_score
            THEN BestOverlapLast(v_tokens, allowed_sectors, i + 1, allowed_sectors[i], score)
            ELSE BestOverlapLast(v_tokens, allowed_sectors, i + 1, best, best_score)

\* the scoring loop: best / best_score, updated on a strictly greater score
RECURSIVE BestOverlap(_, _, _, _, _)
BestOverlap(v_tokens, allowed_sectors, i, best, best_score) ==
    IF i > Len(allowed_sectors) THEN [best |-> best, best_score |-> best_score]
    ELSE LET an == norm_lower(allowed_sectors[i])
             score == IF an = NA THEN 0
                      ELSE Cardinality(v_tokens \cap SectorTokens(an))
         IN IF an # NA /\ score > best_score
            THEN BestOverlap(v_tokens, allowed_sectors, i + 1, allowed_sectors[i], score)
            ELSE BestOverlap(v_tokens, allowed_sectors, i + 1, best, best_score)

\* the returns of lines 79-80, 96-100 and 115-118 in their order: the exact match, the label
\* of the first keyword entry that gives one, the best overlap when it scores
FirstFound(exact, keyword, r) ==
    IF exact # NA THEN exact
    ELSE IF keyword # NA THEN keyword
    ELSE IF r.best_score >= 1 THEN r.best
    ELSE NA

\* lines 74-118, v being norm_lower(value)
NormalizeLowered(v, allowed_sectors) ==
    IF v = NA THEN NA
    ELSE FirstFound(AllowedNormGet(v, allowed_sectors),
                    KeywordLookup(v, allowed_sectors, 1),
                    BestOverlap(SectorTokens(v), allowed_sectors, 1, NA, 0))

\* lines 72-118 with `return value` for the last line: a sector no lookup finds is passed on
normalize_sector_passthrough(value, allowed_sectors) ==
    IF NormalizeLowered(norm_lower(value), allowed_sectors) = NA THEN value
    ELSE NormalizeLowered(norm_lower(value), allowed_sectors)

normalize_sector_to_allowed(value, allowed_sectors) ==
    NormalizeLowered(norm_lower(value), allowed_sectors)

(***************************************************************************)
(* enrich_sectors.py: configuration, tables, reference sources             *)
(***************************************************************************)
USE_FINANCEDATABASE == TRUE
USE_SP500_GICS == TRUE
USE_SECTOR_HELPER == TRUE
USE_YFINANCE == TRUE
DROP_MISSING_SECTOR_INDUSTRY == TRUE

\* the four phases of main, in the order main runs them
Sources == <<
    [name |-> "FinanceDatabase",  use |-> USE_FINANCEDATABASE, allow_new_industry |-> TRUE,  lookup |-> TRUE],
    [name |-> "S&P500 GICS",      use |-> USE_SP500_GICS,      allow_new_industry |-> TRUE,  lookup |-> FALSE],
    [name |-> "sector only",      use |-> USE_SECTOR_HELPER,   allow_new_industry |-> FALSE, lookup |-> FALSE],
    [name |-> "yfinance",         use |-> USE_YFINANCE,        allow_new_industry |-> TRUE,  lookup |-> TRUE] >>

NumSources == Len(Sources)

\* pd.isna(x) or not str(x).strip()
IsMissing(x) == x = NA \/ Strip(x) = ""

RowMissingEither(row) == IsMissing(row.Sector) \/ IsMissing(row.Industry)

\* the index labels of a frame, ascending (the order iterrows and to_csv follow)
RECURSIVE SortedIdx(_)
SortedIdx(S) == IF S = {} THEN <<>> ELSE <<MinOf(S)>> \o SortedIdx(S \ {MinOf(S)})

\* Series.unique(): first occurrences, in order
RECURSIVE Unique(_, _)
Unique(xs, seen) ==
    IF Len(xs) = 0 THEN <<>>
    ELSE IF xs[1] \in seen THEN Unique(Tail(xs), seen)
    ELSE <<xs[1]>> \o Unique(Tail(xs), seen \cup {xs[1]})

\* allowed_sectors = [v for v in df["Sector"].dropna().unique().tolist() if norm(v)]
AllowedSectorsOf(frame) ==
    LET col == [i \in 1..Len(SortedIdx(DOMAIN frame)) |-> frame[SortedIdx(DOMAIN frame)[i]].Sector]
    IN SelectSeq(Unique(SelectSeq(col, LAMBDA v : v # NA), {}), LAMBDA v : norm(v) # NA)

\* symbols_needed = df_work["Symbol"].dropna().unique().tolist()
SymbolsNeededOf(work) ==
    LET col == [i \in 1..Len(SortedIdx(DOMAIN work)) |-> work[SortedIdx(DOMAIN work)[i]].Symbol]
    IN Unique(SelectSeq(col, LAMBDA v : v # NA), {})

\* line 129 with keep="last": the record kept for a symbol is the last one of the table
RefMapOfLast(ref_df) ==
    LET kept == SelectSeq(ref_df, LAMBDA r : r.Symbol # NA)
        symOf(i) == Strip(Upper(kept[i].Symbol))
        last(s) == MaxOf({i \in 1..Len(kept) : symOf(i) = s})
    IN [s \in {symOf(i) : i \in 1..Len(kept)} |->
           [Sector |-> kept[last(s)].Sector, Industry |-> kept[last(s)].Industry]]

\* lines 127-130: dropna(subset=["Symbol"]), upper/strip, drop_duplicates(keep="first"),
\* set_index("Symbol"): the record kept for a symbol is the first one of the table
RefMapOf(ref_df) ==
    LET kept == SelectSeq(ref_df, LAMBDA r : r.Symbol # NA)
        symOf(i) == Strip(Upper(kept[i].Symbol))
        first(s) == MinOf({i \in 1..Len(kept) : symOf(i) = s})
    IN [s \in {symOf(i) : i \in 1..Len(kept)} |->
           [Sector |-> kept[first(s)].Sector, Industry |-> kept[first(s)].Industry]]

\* lines 151-160 with line 151 reading `if mapped_sector:`: a mapped sector is always written
FillFromRefOverwriting(row, ref, mapped_sector, allowed, allow_new_industry) ==
    LET sector_missing == IsMissing(row.Sector)
        industry_missing == IsMissing(row.Industry)
        fillS == mapped_sector # NA
        sector1 == IF fillS THEN mapped_sector ELSE row.Sector
        sector_now == IF sector1 # NA THEN Strip(sector1) ELSE ""
        allowed_sector_norm == {norm_lower(allowed[i]) : i \in 1..Len(allowed)}
        sector_ok == sector_now # "" /\ norm_lower(sector_now) \in allowed_sector_norm
        ind == norm(ref.Industry)
        fillI == industry_missing /\ sector_ok /\ allow_new_industry /\ ind # NA
    IN [row |-> [Symbol |-> row.Symbol, Sector |-> sector1,
                 Industry |-> IF fillI THEN ind ELSE row.Industry],
        filled |-> (IF fillS THEN 1 ELSE 0) + (IF fillI THEN 1 ELSE 0)]

\* lines 151-160 with line 158 reading `if industry_missing and allow_new_industry:`
FillFromRefUngated(row, ref, mapped_sector, allowed, allow_new_industry) ==
    LET sector_missing == IsMissing(row.Sector)
        industry_missing == IsMissing(row.Industry)
        fillS == sector_missing /\ mapped_sector # NA
        sector1 == IF fillS THEN mapped_sector ELSE row.Sector
        sector_now == IF sector1 # NA THEN Strip(sector1) ELSE ""
        allowed_sector_norm == {norm_lower(allowed[i]) : i \in 1..Len(allowed)}
        sector_ok == sector_now # "" /\ norm_lower(sector_now) \in allowed_sector_norm
        ind == norm(ref.Industry)
        fillI == industry_missing /\ allow_new_industry /\ ind # NA
    IN [row |-> [Symbol |-> row.Symbol, Sector |-> sector1,
                 Industry |-> IF fillI THEN ind ELSE row.Industry],
        filled |-> (IF fillS THEN 1 ELSE 0) + (IF fillI THEN 1 ELSE 0)]

\* lines 151-160: the two writes of an iteration that found the row's symbol in ref_map,
\* mapped_sector being what line 149 computed
FillFromRef(row, ref, mapped_sector, allowed, allow_new_industry) ==
    LET sector_missing == IsMissing(row.Sector)
        industry_missing == IsMissing(row.Industry)
        fillS == sector_missing /\ mapped_sector # NA
        sector1 == IF fillS THEN mapped_sector ELSE row.Sector
        sector_now == IF sector1 # NA THEN Strip(sector1) ELSE ""
        allowed_sector_norm == {norm_lower(allowed[i]) : i \in 1..Len(allowed)}
        sector_ok == sector_now # "" /\ norm_lower(sector_now) \in allowed_sector_norm
        ind == norm(ref.Industry)
        fillI == industry_missing /\ sector_ok /\ allow_new_industry /\ ind # NA
    IN [row |-> [Symbol |-> row.Symbol, Sector |-> sector1,
                 Industry |-> IF fillI THEN ind ELSE row.Industry],
        filled |-> (IF fillS THEN 1 ELSE 0) + (IF fillI THEN 1 ELSE 0)]

\* lines 136-162: what one iteration of the loop makes of a row
EnrichRowOf(row, refmap, allowed, allow_new_industry) ==
    LET sym == Strip(Upper(row.Symbol))
    IN IF ~(IsMissing(row.Sector) \/ IsMissing(row.Industry)) THEN [row |-> row, filled |-> 0]
       ELSE IF sym \notin DOMAIN refmap THEN [row |-> row, filled |-> 0]
       ELSE FillFromRef(row, refmap[sym],
                        normalize_sector_to_allowed(refmap[sym].Sector, allowed),
                        allowed, allow_new_industry)

\* a drop mask that looks at Sector alone
DropMissingSector(frame) == [i \in {j \in DOMAIN frame : ~IsMissing(frame[j].Sector)} |-> frame[i]]

\* df = df[~drop_mask]
DropMissing(frame) == [i \in {j \in DOMAIN frame : ~RowMissingEither(frame[j])} |-> frame[i]]

\* df.to_csv(output_path, index=False)
CsvOf(frame) == [i \in 1..Len(SortedIdx(DOMAIN frame)) |-> frame[SortedIdx(DOMAIN frame)[i]]]

(***************************************************************************)
(* Bounds and the values the tables are drawn from.                        *)
(***************************************************************************)
MaxRows == 2
MaxRefRows == 1

\* the listing has one row per symbol: row i of the input carries TableSymbols[i]
TableSymbols == <<"AAA", "bbb", "CCC", "ddd">>
\* the cells of a row: sector without industry, complete, nothing, blank sector with industry
TableCells == {[Sector |-> "Technology", Industry |-> NA],
               [Sector |-> "Finance",    Industry |-> "Banks"],
               [Sector |-> NA,           Industry |-> NA],
               [Sector |-> " ",          Industry |-> "Software"]}

InputTables ==
    UNION {{[i \in 1..n |-> [Symbol |-> TableSymbols[i], Sector |-> cells[i].Sector,
                             Industry |-> cells[i].Industry]] :
              cells \in [1..n -> TableCells]}
           : n \in 0..MaxRows}

\* what a reference source may say of a symbol's sector: nothing, or one of two labels, each
\* mappable only when the table holds its target
RawSectors == {NA, "Information Technology", "Financials"}
\* every source has its own industry vocabulary
SourceIndustry == <<"Software - Application", "Application Software", "n/a", "Software - Infrastructure">>
RawIndustries(k) == IF Sources[k].allow_new_industry THEN {NA, SourceIndustry[k]} ELSE {NA}
CsvSymbols == {"aaa", "BBB "}

RECURSIVE Compact(_)
Compact(xs) ==
    IF Len(xs) = 0 THEN <<>>
    ELSE IF xs[1] = <<>> THEN Compact(Tail(xs)) ELSE <<xs[1]>> \o Compact(Tail(xs))

\* build_ref_from_financedatabase / build_ref_from_yfinance: one record per needed symbol the
\* service knows, in the order of symbols_needed, Sector and Industry passed through norm
LookupTables(k, symbols_needed) ==
    LET n == Len(symbols_needed)
        payloads == [Sector : RawSectors, Industry : RawIndustries(k)]
        answers == {ans \in [1..n -> {<<>>} \cup payloads] :
                       Cardinality({i \in 1..n : ans[i] # <<>>}) <= MaxRefRows}
        rowsOf(ans) == Compact([i \in 1..n |->
                          IF ans[i] = <<>> THEN <<>>
                          ELSE [Symbol |-> Strip(Upper(symbols_needed[i])),
                                Sector |-> norm(ans[i].Sector),
                                Industry |-> norm(ans[i].Industry)]])
    IN {rowsOf(ans) : ans \in answers}

\* the downloaded CSV of phase 3 / phase 4 as the frame main builds from it
CsvTables(k) ==
    UNION {[1..n -> [Symbol : CsvSymbols, Sector : RawSectors, Industry : RawIndustries(k)]]
             : n \in 0..MaxRefRows}

(***************************************************************************)
(* enrich_sectors.py: main as a state machine                              *)
(***************************************************************************)
VARIABLES
    input_csv,        \* the rows of INPUT_CSV as read_csv_flex returns them
    df,               \* main's df: index label -> row
    df_work,          \* main's df_work: the rows needing enrichment, same labels
    allowed_sectors,  \* main's allowed_sectors
    pc,               \* where main is
    src,              \* the phase (source) main is in, 1..NumSources
    ref_map,          \* enrich_from_reference's ref_map: symbol -> record
    cursor,           \* position of the iterrows loop in df_work
    filled,           \* enrich_from_reference's filled_cells
    filled_total,     \* main's filled_total
    status,           \* what the phase that ended last printed: failed, nomatch, ran
    removed,          \* the count the final drop stage reports
    output_csv,       \* OUTPUT_CSV: written or not, and its rows
    hist              \* history: per work row the first sector / industry a source could give

enrich_vars == <<input_csv, df, df_work, allowed_sectors, pc, src, ref_map, cursor,
                 filled, filled_total, status, removed, output_csv, hist>>

NoFile == [written |-> FALSE, rows |-> <<>>]

WorkIdx == SortedIdx(DOMAIN df_work)

EnrichInit ==
    /\ input_csv \in InputTables
    /\ df = <<>>
    /\ df_work = <<>>
    /\ allowed_sectors = <<>>
    /\ pc = "start"
    /\ src = 0
    /\ ref_map = <<>>
    /\ cursor = 0
    /\ filled = 0
    /\ filled_total = 0
    /\ status = "none"
    /\ removed = 0
    /\ output_csv = NoFile
    /\ hist = [firstSec |-> <<>>, firstInd |-> <<>>]

\* lines 296-320: read, normalise Symbol, needs, allowed_sectors, df_work
MainStart ==
    /\ pc = "start"
    /\ LET frame == [i \in 1..Len(input_csv) |->
                        [input_csv[i] EXCEPT !.Symbol = IF @ = NA THEN "NAN" ELSE Strip(Upper(@))]]
           needs == {i \in DOMAIN frame : RowMissingEither(frame[i])}
       IN /\ df' = frame
          /\ allowed_sectors' = AllowedSectorsOf(frame)
          /\ df_work' = [i \in needs |-> frame[i]]
          /\ hist' = [firstSec |-> [i \in {j \in needs : IsMissing(frame[j].Sector)} |-> NA],
                      firstInd |-> [i \in {j \in needs : IsMissing(frame[j].Industry)} |-> NA]]
          /\ pc' = IF needs = {} THEN "early" ELSE "fetch"
          /\ src' = IF needs = {} THEN 0 ELSE 1
    /\ UNCHANGED <<input_csv, ref_map, cursor, filled, filled_total, status, removed, output_csv>>

\* lines 322-336: nothing to enrich
MainEarlyExit ==
    /\ pc = "early"
    /\ df' = IF DROP_MISSING_SECTOR_INDUSTRY THEN DropMissing(df) ELSE df
    /\ removed' = Cardinality(DOMAIN df) - Cardinality(DOMAIN df')
    /\ output_csv' = [written |-> TRUE, rows |-> CsvOf(df')]
    /\ pc' = "done"
    /\ UNCHANGED <<input_csv, df_work, allowed_sectors, src, ref_map, cursor, filled,
                   filled_total, status, hist>>

NextPc(k) == IF k = NumSources THEN "merge" ELSE "fetch"

\* how a phase can end without a pass: disabled, an exception caught by the phase's
\* except clause, no match (build_ref_* returned None), no sector column (phase 4)
SkipOutcomes(k) ==
    IF ~Sources[k].use THEN {"disabled"}
    ELSE {"failed"} \cup (IF Sources[k].lookup \/ ~Sources[k].allow_new_industry
                          THEN {"nomatch"} ELSE {})

\* a phase whose try block raised, as if it had no except clause: main ends there
AfterExceptionAbort(k) == [pc |-> "aborted", src |-> k]

\* `except Exception as e: print(...)`: main goes on with the next phase
AfterException(k) == [pc |-> NextPc(k), src |-> k + 1]

SourceSkipped ==
    /\ pc = "fetch"
    /\ \E outcome \in SkipOutcomes(src) :
          /\ status' = outcome
          /\ LET nxt == IF outcome = "failed" THEN AfterException(src)
                        ELSE [pc |-> NextPc(src), src |-> src + 1]
             IN pc' = nxt.pc /\ src' = nxt.src
    /\ UNCHANGED <<input_csv, df, df_work, allowed_sectors, ref_map, cursor, filled,
                   filled_total, removed, output_csv, hist>>

\* the phase's reference frame is built and enrich_from_reference starts (lines 127-133)
SourceFetched ==
    /\ pc = "fetch"
    /\ Sources[src].use
    /\ \E ref_df \in (IF Sources[src].lookup
                      THEN LookupTables(src, SymbolsNeededOf(df_work)) \ {<<>>}
                      ELSE CsvTables(src)) :
          ref_map' = RefMapOf(ref_df)
    /\ status' = "running"
    /\ filled' = 0
    /\ cursor' = 1
    /\ pc' = "rows"
    /\ UNCHANGED <<input_csv, df, df_work, allowed_sectors, src, filled_total, removed,
                   output_csv, hist>>

\* a loop that returns after its first row
PassDoneEarly(c) == c > 1

\* the iterrows loop is exhausted
PassDone(c) == c > Len(WorkIdx)

\* history: the first mapped sector a pass could give work row idx, and the first industry a
\* pass could give it once its sector was there; read from ref_map, not from df_work
HistGiven(idx, sym, s) ==
    LET known == sym \in DOMAIN ref_map
        fs == [i \in DOMAIN hist.firstSec |->
                 IF i = idx /\ hist.firstSec[i] = NA THEN s ELSE hist.firstSec[i]]
        has_sector == IF idx \in DOMAIN fs THEN fs[idx] # NA ELSE TRUE
        ind == IF known /\ Sources[src].allow_new_industry /\ has_sector
               THEN norm(ref_map[sym].Industry) ELSE NA
    IN [firstSec |-> fs,
        firstInd |-> [i \in DOMAIN hist.firstInd |->
                        IF i = idx /\ hist.firstInd[i] = NA THEN ind ELSE hist.firstInd[i]]]

HistAfter(idx) ==
    HistGiven(idx, Strip(Upper(df[idx].Symbol)),
              IF Strip(Upper(df[idx].Symbol)) \in DOMAIN ref_map
              THEN normalize_sector_to_allowed(ref_map[Strip(Upper(df[idx].Symbol))].Sector,
                                               allowed_sectors)
              ELSE NA)

\* one iteration of the loop of enrich_from_reference (lines 135-162)
EnrichRow ==
    /\ pc = "rows"
    /\ ~PassDone(cursor)
    /\ LET idx == WorkIdx[cursor]
           r == EnrichRowOf(df_work[idx], ref_map, allowed_sectors, Sources[src].allow_new_industry)
       IN /\ df_work' = [df_work EXCEPT ![idx] = r.row]
          /\ filled' = filled + r.filled
          /\ hist' = HistAfter(idx)
    /\ cursor' = cursor + 1
    /\ UNCHANGED <<input_csv, df, allowed_sectors, pc, src, ref_map, filled_total, status,
                   removed, output_csv>>

\* enrich_from_reference returns; filled_total += filled; the phase prints its count
SourcePassed ==
    /\ pc = "rows"
    /\ PassDone(cursor)
    /\ filled_total' = filled_total + filled
    /\ status' = "ran"
    /\ ref_map' = <<>>
    /\ cursor' = 0
    /\ filled' = 0
    /\ src' = src + 1
    /\ pc' = NextPc(src)
    /\ UNCHANGED <<input_csv, df, df_work, allowed_sectors, removed, output_csv, hist>>

\* line 419: df.loc[df_work.index, ["Sector", "Industry"]] = df_work[["Sector", "Industry"]]
MergeBack ==
    /\ pc = "merge"
    /\ df' = [i \in DOMAIN df |->
                IF i \in DOMAIN df_work
                THEN [df[i] EXCEPT !.Sector = df_work[i].Sector, !.Industry = df_work[i].Industry]
                ELSE df[i]]
    /\ pc' = "drop"
    /\ UNCHANGED <<input_csv, df_work, allowed_sectors, src, ref_map, cursor, filled,
                   filled_total, status, removed, output_csv, hist>>

\* lines 427-438: the final drop stage and the write
DropAndWrite ==
    /\ pc = "drop"
    /\ df' = IF DROP_MISSING_SECTOR_INDUSTRY THEN DropMissing(df) ELSE df
    /\ removed' = Cardinality(DOMAIN df) - Cardinality(DOMAIN df')
    /\ output_csv' = [written |-> TRUE, rows |-> CsvOf(df')]
    /\ pc' = "done"
    /\ UNCHANGED <<input_csv, df_work, allowed_sectors, src, ref_map, cursor, filled,
                   filled_total, status, hist>>

(***************************************************************************)
(* clean_tickers.py                                                        *)
(***************************************************************************)
MIN_DOLLAR_VOLUME == 1000000

exclude_keywords == <<"depositary", "adr", "preferred", "unit", "warrant", "right", "notes",
                      "trust", "etf", "fund">>
include_phrases == <<"common stock", "common shares", "ordinary shares">>

\* Series.str.contains("a|b|c", regex=True) on one value: re.search scans the positions from
\* the left and tries the alternatives (plain literals here) in order at each
ReSearchAlt(s, alternatives) ==
    \E i \in 1..Len(s) : \E a \in 1..Len(alternatives) : LitAt(s, i, alternatives[a])

\* line 51 with the case folding left out
NameNormNoLower(name) == IF name = NA THEN "" ELSE name

\* line 51: df["Name"].fillna("").astype(str).str.lower()
NameNorm(name) == IF name = NA THEN "" ELSE Lower(name)

\* where a match of class\s+[a-z] that starts at position i of s ends, 0 if there is none
ClassMatchEnd(s, i) ==
    LET rest == SubSeq(s, i + 5, Len(s))
        gap == Len(rest) - Len(LStripChars(rest, WhiteSpace))
        last == i + 5 + gap
    IN IF /\ LitAt(s, i, "class") /\ gap >= 1 /\ last <= Len(s)
          /\ CharAt(s, last) \in CharSet(LowerChars)
       THEN last ELSE 0

\* re.sub(r"class\s+[a-z]", "", name)
RECURSIVE StripClass(_)
StripClass(s) ==
    LET hits == {i \in 1..Len(s) : ClassMatchEnd(s, i) # 0}
        i == MinOf(hits)
    IN IF hits = {} THEN s
       ELSE SubSeq(s, 1, i - 1) \o StripClass(SubSeq(s, ClassMatchEnd(s, i) + 1, Len(s)))

\* lines 81-87
normalize_company(name) ==
    Strip(CollapseWs(Replace(Replace(Replace(StripClass(name),
        "common stock", ""), "common shares", ""), "ordinary shares", "")))

\* lines 91-96
class_rank(name) ==
    IF Contains(name, "class a") THEN 0
    ELSE IF Contains(name, "class b") THEN 1
    ELSE 2

IsSortedByRank(frame) ==
    \A a, b \in 1..Len(frame) : a < b => frame[a].class_rank <= frame[b].class_rank

IndexPermutations(n) == {p \in [1..n -> 1..n] : \A a, b \in 1..n : a # b => p[a] # p[b]}

\* no sort before the drop_duplicates
SortValuesOmitted(frame) == {frame}

\* df.sort_values("class_rank"): kind defaults to "quicksort", which is not a stable sort, so
\* the result is some ordering of the rows by ascending rank; which one, among rows of equal
\* rank, is not fixed by the call
SortValues(frame) ==
    {g \in {[a \in 1..Len(frame) |-> frame[p[a]]] : p \in IndexPermutations(Len(frame))} :
        IsSortedByRank(g)}

\* drop_duplicates(subset="company_key", keep="first")
DropDuplicates(frame) ==
    LET keep == {a \in 1..Len(frame) :
                    \A b \in 1..(a - 1) : frame[b].company_key # frame[a].company_key}
    IN [k \in 1..Cardinality(keep) |-> frame[SortedIdx(keep)[k]]]

MaxCleanRows == 3

\* the rows tickers.csv may hold: Name, and Last Sale / Volume as parse_money and
\* parse_int_like read them
TickerRows == {
    [Name |-> "Acme Corp Class A Common Stock", LastSale |-> 40, Volume |-> 50000],
    [Name |-> "Acme Corp Class B Common Stock", LastSale |-> 40, Volume |-> 50000],
    [Name |-> "ACME CORP  Common Shares",       LastSale |-> 40, Volume |-> 50000],
    [Name |-> "Acme Corp Class C Common Stock", LastSale |-> 2,  Volume |-> 300],
    [Name |-> "Unity Inc Common Stock",         LastSale |-> 40, Volume |-> 50000],
    [Name |-> "Beta Preferred Ord",             LastSale |-> 40, Volume |-> 50000],
    [Name |-> "Gamma plc Ordinary Shares",      LastSale |-> 40, Volume |-> 50000],
    [Name |-> NA,                               LastSale |-> 40, Volume |-> 50000]}

VARIABLES
    tickers_csv,   \* the rows of INPUT_FILE
    cdf,           \* the script's df: rows in frame order, each with its index label id
    cpc,           \* where the script is
    clean_csv      \* OUTPUT_FILE: written or not, and its rows

clean_vars == <<tickers_csv, cdf, cpc, clean_csv>>

CleanIdle ==
    /\ tickers_csv = <<>>
    /\ cdf = <<>>
    /\ cpc = "idle"
    /\ clean_csv = NoFile

CleanInit ==
    /\ tickers_csv \in UNION {[1..n -> TickerRows] : n \in 0..MaxCleanRows}
    /\ cdf = <<>>
    /\ cpc = "load"
    /\ clean_csv = NoFile

\* lines 46-51
CleanLoad ==
    /\ cpc = "load"
    /\ cdf' = [i \in 1..Len(tickers_csv) |->
                 [id |-> i, Name |-> tickers_csv[i].Name, LastSale |-> tickers_csv[i].LastSale,
                  Volume |-> tickers_csv[i].Volume, name_norm |-> NameNorm(tickers_csv[i].Name),
                  company_key |-> NA, class_rank |-> -1]]
    /\ cpc' = "exclude"
    /\ UNCHANGED <<tickers_csv, clean_csv>>

\* lines 56-70 (phase 1)
CleanExclude ==
    /\ cpc = "exclude"
    /\ cdf' = SelectSeq(cdf, LAMBDA r : ~ReSearchAlt(r.name_norm, exclude_keywords))
    /\ cpc' = "include"
    /\ UNCHANGED <<tickers_csv, clean_csv>>

\* lines 75-76 (phase 2)
CleanInclude ==
    /\ cpc = "include"
    /\ cdf' = SelectSeq(cdf, LAMBDA r : ReSearchAlt(r.name_norm, include_phrases))
    /\ cpc' = "keys"
    /\ UNCHANGED <<tickers_csv, clean_csv>>

\* lines 81-98: the company_key and class_rank columns
CleanKeys ==
    /\ cpc = "keys"
    /\ cdf' = [a \in 1..Len(cdf) |->
                 [cdf[a] EXCEPT !.company_key = normalize_company(cdf[a].name_norm),
                                !.class_rank = class_rank(cdf[a].name_norm)]]
    /\ cpc' = "dedup"
    /\ UNCHANGED <<tickers_csv, clean_csv>>

\* lines 100-103: sort_values("class_rank").drop_duplicates(subset="company_key", keep="first")
CleanDedup ==
    /\ cpc = "dedup"
    /\ \E sorted \in SortValues(cdf) : cdf' = DropDuplicates(sorted)
    /\ cpc' = "liquidity"
    /\ UNCHANGED <<tickers_csv, clean_csv>>

\* lines 109-119 (phase 4)
CleanLiquidity ==
    /\ cpc = "liquidity"
    /\ cdf' = SelectSeq(cdf, LAMBDA r : r.LastSale * r.Volume >= MIN_DOLLAR_VOLUME)
    /\ cpc' = "write"
    /\ UNCHANGED <<tickers_csv, clean_csv>>

\* lines 124-133: the helper columns are dropped and the file is written
CleanWrite ==
    /\ cpc = "write"
    /\ clean_csv' = [written |-> TRUE,
                     rows |-> [a \in 1..Len(cdf) |->
                                 [Name |-> cdf[a].Name, LastSale |-> cdf[a].LastSale,
                                  Volume |-> cdf[a].Volume]]]
    /\ cpc' = "done"
    /\ UNCHANGED <<tickers_csv, cdf>>

(***************************************************************************)
(* normalize_sector_to_allowed on its own                                  *)
(***************************************************************************)
MaxAllowed == 3

AllowedLabels == {"Technology", "Information Technology", "Finance", "Consumer Services",
                  "Consumer Durables"}
\* allowed_sectors comes from Series.unique(): no label twice
AllowedLists ==
    UNION {{a \in [1..n -> AllowedLabels] : \A x, y \in 1..n : x # y => a[x] # a[y]}
             : n \in 0..MaxAllowed}
SectorValues == {NA, " ", "Information Technology", "Zzqq Nonsense", " FINANCE",
                 "Consumer Goods", "Services Consumer", "Durables/Consumer",
                 "Banks & Software", "Finance Services"}

VARIABLES
    norm_in,    \* the arguments of a call: value, allowed_sectors
    norm_out    \* the call's return value, once it returned

norm_vars == <<norm_in, norm_out>>

NormIdle ==
    /\ norm_in = <<>>
    /\ norm_out = <<>>

NormInit ==
    /\ norm_in \in [value : SectorValues, allowed_sectors : AllowedLists]
    /\ norm_out = <<>>

\* lines 72-118
NormalizeCall ==
    /\ norm_out = <<>>
    /\ norm_in # <<>>
    /\ norm_out' = <<normalize_sector_to_allowed(norm_in.value, norm_in.allowed_sectors)>>
    /\ UNCHANGED norm_in

(***************************************************************************)
(* shorten_name.py                                                         *)
(* The characters U+00A0 and the typographic quotes that                   *)
(* _normalize_whitespace replaces are outside the model's alphabet.        *)
(***************************************************************************)
TRUNCATE_AFTER_LEGAL_SUFFIX == TRUE
REMOVE_TRAILING_LEGAL_SUFFIX_TOKENS == TRUE
KEEP_SUFFIX_WORDS == {"company", "group", "holdings"}
DROP_SHORT_ALLCAPS_PARENS == TRUE
DROP_SHORT_ALLCAPS_PARENS_MAXLEN == 4
KEEP_PAREN_TICKERS == {"mindmed"}
MAX_NAME_LEN == 50
ENFORCE_MAX_NAME_LEN == TRUE

\* the characters of .rstrip(" ,.;:") and .strip(" ,.;:")
TrimChars == {" ", ",", ".", ";", ":"}

Letters == CharSet(LowerChars) \cup CharSet(UpperChars)
Digits == CharSet(DigitChars)

\* str.isalnum() on one character
IsAlnum(c) == c \in Letters \cup Digits

\* \w
IsWordChar(c) == c \in Letters \cup Digits \cup {"_"}

\* \b at position p of s: between s[p-1] and s[p] exactly one is a word character
WordBoundary(s, p) ==
    (p - 1 \in 1..Len(s) /\ IsWordChar(CharAt(s, p - 1)))
        # (p \in 1..Len(s) /\ IsWordChar(CharAt(s, p)))

(* Regular expressions.  A pattern is a sequence of items, matched one after  *)
(* the other; Ends gives the positions a match can end at when it starts at   *)
(* one of the positions P, whichever way the quantifiers are taken.           *)
Lit(text) == [k |-> "lit", text |-> text]                 \* the characters of text
Cls(chars, min, max) ==                                   \* [chars]{min,max}; max = -1: no limit
    [k |-> "cls", chars |-> chars, min |-> min, max |-> max]
DotStar == [k |-> "dotstar"]                              \* .*
Rep(items, min, max) ==                                   \* (?:items){min,max}
    [k |-> "rep", items |-> items, min |-> min, max |-> max]
WB == [k |-> "wb"]                                        \* \b
EOS == [k |-> "eos"]                                      \* $

RECURSIVE Ends(_, _, _)
RECURSIVE Times(_, _, _, _)
RECURSIVE Step(_, _, _)

Ends(items, s, P) ==
    IF Len(items) = 0 \/ P = {} THEN P
    ELSE Ends(Tail(items), s, Step(items[1], s, P))

Times(items, s, P, n) ==
    IF n = 0 THEN P ELSE Times(items, s, Ends(items, s, P), n - 1)

Step(item, s, P) ==
    CASE item.k = "lit" -> {p + Len(item.text) : p \in {q \in P : LitAt(s, q, item.text)}}
      [] item.k = "cls" ->
            UNION {{q \in (p + item.min)..(IF item.max < 0 \/ p + item.max > Len(s) + 1
                                           THEN Len(s) + 1 ELSE p + item.max) :
                       \A r \in p..(q - 1) : CharAt(s, r) \in item.chars} : p \in P}
      [] item.k = "dotstar" -> UNION {p..(Len(s) + 1) : p \in P}
      [] item.k = "rep" -> UNION {Times(item.items, s, P, n) : n \in item.min..item.max}
      [] item.k = "wb" -> {p \in P : WordBoundary(s, p)}
      [] item.k = "eos" -> {p \in P : p = Len(s) + 1}

\* re.fullmatch(pattern, text)
FullMatch(items, text) == (Len(text) + 1) \in Ends(items, text, {1})

\* re.sub(pattern, "", s) for a pattern that ends with $ and matches no empty text: the one
\* match is the leftmost, it reaches the end of s.  text is s as the pattern's flags see it
\* (lower-cased under re.IGNORECASE).
SubAtEnd(items, s, text) ==
    LET starts == {i \in 1..Len(s) : (Len(s) + 1) \in Ends(items, text, {i})}
    IN IF starts = {} THEN s ELSE SubSeq(s, 1, MinOf(starts) - 1)

WS1 == Cls(WhiteSpace, 1, -1)                    \* \s+
WS0 == Cls(WhiteSpace, 0, -1)                    \* \s*
AZ == Cls(CharSet(LowerChars), 1, 1)             \* [a-z]
OptS == Cls({"s"}, 0, 1)                         \* s?
Number == <<Cls(Digits, 1, -1), Rep(<<Lit("."), Cls(Digits, 1, -1)>>, 0, 1)>>  \* \d+(?:\.\d+)?

\* lines 56-59
shorten_norm(s) == IF s = NA THEN "" ELSE Strip(s)

\* lines 190-194
_normalize_whitespace(s) == Strip(CollapseWs(s))

_PAREN_NOISE_EXACT ==
    {"the", "de", "new", "holding company", "holdings", "ireland", "canada", "hc", "nv", "tx",
     "fl", "nj", "pa", "ca", "uk", "marshall islands", "s.c", "s.c.", "sc"}

_TRAILING_PATTERNS == <<
    <<WB, Lit("common stock"), WB>>,
    <<WB, Lit("new common stock"), WB>>,
    <<WB, Lit("common shares"), WB>>,
    <<WB, Lit("common share"), OptS, WS1, Lit("of"), WB, DotStar, EOS>>,
    <<WB, Lit("ordinary shares"), WB>>,
    <<WB, Lit("voting common stock"), WB>>,
    <<WB, Lit("class"), WS1, AZ, WB>>,
    <<WB, Lit("class"), WS1, AZ, WS1, Lit("common stock"), WB>>,
    <<WB, Lit("class"), WS1, AZ, WS1, Lit("ordinary shares"), WB>>,
    <<WB, Lit("series"), WS1, AZ, WB>>,
    <<WB, Lit("series"), WS1, AZ, WS1, Lit("common stock"), WB>>,
    <<WB, Lit("nonvoting"), WB>>,
    <<WB, Lit("non voting"), WB>>,
    <<WB, Lit("depositary shares"), WB>>,
    <<WB, Lit("adr"), WB>>,
    <<WB, Lit("ads"), WB>>,
    <<WB, Lit("reit"), WB>>,
    <<WB, Lit("beneficial interest"), WB>>,
    <<WB, Lit("beneficial ownership"), WB>>,
    <<WB, Lit("share"), OptS, WS1, Lit("of"), WS1, Lit("beneficial"), WS1, Lit("ownership"), WB>>,
    <<WB, Lit("par value"), WB, DotStar, EOS>>,
    <<WB, Lit("$"), Cls(Digits \cup {"."}, 1, -1), WS1, Lit("par value"), WB, DotStar, EOS>>,
    <<WB, Lit("when issued"), WB, DotStar, EOS>>,
    <<WB, Lit("unit"), WB, DotStar, EOS>>,
    <<WB, Lit("warrant"), OptS, WB, DotStar, EOS>>,
    <<WB, Lit("ordinary shares"), WS0, Lit("("), DotStar, Lit(")"), WB>>,
    <<Lit("$"), WS0>> \o Number \o <<WS0, EOS>>,
    <<Lit("$")>> \o Number \o <<WS0, EOS>> >>

\* the alternatives of _LEGAL_SUFFIX_REGEX in the order the matcher tries them (x\.? tries
\* "x." before "x")
_LEGAL_SUFFIX_REGEX == <<
    "incorporated", "inc.", "inc", "corp.", "corp", "corporation",
    "company", "co.", "co",
    "ltd.", "ltd", "limited",
    "plc",
    "llc", "l.l.c.",
    "lp", "l.p.",
    "llp", "l.l.p.",
    "ag",
    "nv", "n.v.",
    "sa", "s.a.",
    "se",
    "spa", "s.p.a.",
    "bancorp" >>

_TRAILING_SUFFIX_TOKENS ==
    {"inc", "inc.", "corp", "corp.", "corporation", "co", "co.", "incorporated", "ltd", "ltd.",
     "limited", "llc", "l.l.c.", "plc", "lp", "l.p.", "llp", "l.l.p.", "ag", "nv", "n.v.", "sa",
     "s.a.", "se", "spa", "s.p.a."}

\* lines 210-226
paren_repl(group1) ==
    LET inner == Strip(group1)
        inner_norm == StripChars(Strip(CollapseWs(inner)), {".", ","})
        inner_l == Lower(inner_norm)
    IN IF inner_l \in _PAREN_NOISE_EXACT THEN ""
       ELSE IF /\ DROP_SHORT_ALLCAPS_PARENS
               /\ FullMatch(<<Cls(CharSet(UpperChars), 2, DROP_SHORT_ALLCAPS_PARENS_MAXLEN)>>,
                            inner_norm)
               /\ inner_l \notin KEEP_PAREN_TICKERS
            THEN ""
       ELSE IF FullMatch(<<Cls(CharSet(LowerChars), 2, 2)>>, inner_l) THEN ""
       ELSE "(" \o inner \o ")"

\* line 228: re.sub(r"\(([^)]*)\)", paren_repl, s); a match runs from a "(" to the first ")"
\* after it
RECURSIVE ParenSub(_)
ParenSub(s) ==
    LET opens == {i \in 1..Len(s) : CharAt(s, i) = "("}
        i == MinOf(opens)
        closes == {j \in (i + 1)..Len(s) : CharAt(s, j) = ")"}
        j == MinOf(closes)
    IN IF opens = {} THEN s
       ELSE IF closes = {} THEN s
       ELSE SubSeq(s, 1, i - 1) \o paren_repl(SubSeq(s, i + 1, j - 1))
                \o ParenSub(SubSeq(s, j + 1, Len(s)))

\* lines 202-208
DropDuplicatedName(s) ==
    LET parts == SplitBlank(s)
        half == Len(parts) \div 2
        left == Strip(Join(SubSeq(parts, 1, half)))
        right == Strip(Join(SubSeq(parts, half + 1, Len(parts))))
    IN IF Len(parts) > 6 /\ left # "" /\ StartsWith(Lower(right), Lower(left))
       THEN right ELSE s

\* lines 237-238: the patterns first..last applied in turn, each wrapped as
\* (?:,?\s+)pat\s*$ (the run is split in two halves to keep the evaluation shallow)
RECURSIVE ApplyTrailingPatterns(_, _, _)
ApplyTrailingPatterns(s, first, last) ==
    LET pat == <<Cls({","}, 0, 1), WS1>> \o _TRAILING_PATTERNS[first] \o <<WS0, EOS>>
        mid == (first + last) \div 2
        t == ApplyTrailingPatterns(s, first, mid)
    IN IF first = last THEN SubAtEnd(pat, s, Lower(s))
       ELSE IF t = s THEN ApplyTrailingPatterns(s, mid + 1, last)
       ELSE ApplyTrailingPatterns(t, mid + 1, last)

\* lines 231-243: one round of the loop and its repetition while the round changes s
RECURSIVE DescriptorLoop(_)
DescriptorLoop(before) ==
    LET s1 == ApplyTrailingPatterns(RStripChars(before, TrimChars), 1, Len(_TRAILING_PATTERNS))
        s2 == Strip(SubAtEnd(<<WS0, Lit("("), WS0, Lit(")"), WS0, EOS>>, s1, s1))
        s3 == _normalize_whitespace(s2)
    IN IF s3 = before THEN s3 ELSE DescriptorLoop(s3)

\* lines 197-247
strip_trailing_security_descriptors(name) ==
    LET s0 == DropDuplicatedName(_normalize_whitespace(shorten_norm(name)))
        s1 == _normalize_whitespace(ParenSub(s0))
        s2 == DescriptorLoop(s1)
    IN _normalize_whitespace(StripChars(s2, TrimChars))

\* the end of the match of _LEGAL_SUFFIX_REGEX that starts at position i of text, 0 if none:
\* \b, the first alternative that stands there with a \b after it
RECURSIVE LegalSuffixEnd(_, _, _)
LegalSuffixEnd(text, i, k) ==
    IF k > Len(_LEGAL_SUFFIX_REGEX) THEN 0
    ELSE IF /\ LitAt(text, i, _LEGAL_SUFFIX_REGEX[k])
            /\ WordBoundary(text, i + Len(_LEGAL_SUFFIX_REGEX[k]))
         THEN i + Len(_LEGAL_SUFFIX_REGEX[k])
         ELSE LegalSuffixEnd(text, i, k + 1)

\* lines 250-261
truncate_after_legal_suffix(name) ==
    LET s == _normalize_whitespace(shorten_norm(name))
        text == Lower(s)
        starts == {i \in 1..Len(s) : WordBoundary(text, i) /\ LegalSuffixEnd(text, i, 1) # 0}
        cut == LegalSuffixEnd(text, MinOf(starts), 1)
    IN IF starts = {} THEN s
       ELSE _normalize_whitespace(RStripChars(SubSeq(s, 1, cut - 1), TrimChars))

\* lines 272-291: one round of the loop and its repetition
RECURSIVE SuffixTokenLoop(_)
SuffixTokenLoop(before) ==
    IF before = "" THEN before
    ELSE LET s1 == RStripChars(before, TrimChars)
             tokens == SplitBlank(s1)
             last == Lower(StripChars(tokens[Len(tokens)], TrimChars))
             s2 == IF last \in _TRAILING_SUFFIX_TOKENS
                   THEN _normalize_whitespace(Strip(Join(SubSeq(tokens, 1, Len(tokens) - 1))))
                   ELSE s1
         IN IF last \in {Lower(w) : w \in KEEP_SUFFIX_WORDS} THEN s1
            ELSE IF s2 = before THEN s2
            ELSE SuffixTokenLoop(s2)

\* lines 264-293
remove_trailing_legal_suffix_tokens(name) ==
    SuffixTokenLoop(_normalize_whitespace(shorten_norm(name)))

\* lines 296-306 without the cut of line 303
enforce_max_len_uncut(name, max_len) == _normalize_whitespace(shorten_norm(name))

\* lines 296-306
enforce_max_len(name, max_len) ==
    LET s == _normalize_whitespace(shorten_norm(name))
    IN IF Len(s) <= max_len THEN s
       ELSE _normalize_whitespace(RStripChars(SubSeq(s, 1, max_len), TrimChars))

\* parts[:-1] joined again, lines 333-335 and 356-358
DropLastPart(parts) == _normalize_whitespace(Strip(Join(SubSeq(parts, 1, Len(parts) - 1))))

\* lines 324-336
_strip_trailing_symbol(name) ==
    LET t == _normalize_whitespace(shorten_norm(name))
        parts == Split(t)
        last == parts[Len(parts)]
    IN IF t = "" THEN t
       ELSE IF Len(last) = 1 /\ ~IsAlnum(last) THEN DropLastPart(parts)
       ELSE t

\* line 355: ^(?:[A-Za-z]\.){1,3}[A-Za-z]\.?$|^(?:[A-Za-z]\.){1,3}$
DottedToken(last) ==
    LET groups == Rep(<<Cls(Letters, 1, 1), Lit(".")>>, 1, 3)
    IN \/ FullMatch(<<groups, Cls(Letters, 1, 1), Cls({"."}, 0, 1)>>, last)
       \/ FullMatch(<<groups>>, last)

\* lines 343-359
_strip_trailing_dotted(name) ==
    LET t == _normalize_whitespace(shorten_norm(name))
        parts == Split(t)
    IN IF t = "" THEN t
       ELSE IF DottedToken(parts[Len(parts)]) THEN DropLastPart(parts)
       ELSE t

MaxNameTokens == 3

\* the words the names of the model are made of
NameTokens == {"Acme", "&", "S.A.", "U.S.", "Inc.", "Holdings", "Common", "Stock"}

\* the names of at most n words
NamesOf(n) == {Join(words) : words \in UNION {[1..k -> NameTokens] : k \in 0..n}}

\* names of the listings file's kind, one for each branch of the cleaning steps
ListedNames == {
    NA,
    "FormFactor, Inc. Common Stock",
    "Acme Foo Bar Inc. Acme Foo Bar Inc. Units",
    "Mind Medicine (MindMed) Inc. (DE) Common Shares",
    "Foo (CDA) Corp of Louisiana  Class A Ordinary Shares ( )",
    "Foo Bancorp, Inc. Common Stock, $0.01 Par Value",
    "Foo Trust Shares of Beneficial Ownership $ 25.5",
    "Foo Group plc American Depositary Shares each representing one Ordinary Shares (UK)",
    "International Consolidated Amalgamated Manufacturers & Partners N.V. New Common Stock"}

ShortNames == NamesOf(MaxNameTokens) \cup ListedNames

VARIABLES
    short_in,    \* the name make_short_name is called with first
    short_pc,    \* where make_short_name is
    short_s,     \* its local s
    short_out,   \* what the calls returned, in order
    remove_tokens  \* the run's REMOVE_TRAILING_LEGAL_SUFFIX_TOKENS

short_vars == <<short_in, short_pc, short_s, short_out, remove_tokens>>

ShortIdle ==
    /\ short_in = NA
    /\ short_pc = "idle"
    /\ short_s = NA
    /\ short_out = <<>>
    /\ remove_tokens = REMOVE_TRAILING_LEGAL_SUFFIX_TOKENS

\* line 376: df[name_col].apply(make_short_name) enters make_short_name with a name
ShortInit ==
    /\ short_in \in ShortNames
    /\ short_pc = "descriptors"
    /\ short_s = short_in
    /\ short_out = <<>>
    /\ remove_tokens \in BOOLEAN

\* line 310
StripDescriptors ==
    /\ short_pc = "descriptors"
    /\ short_s' = strip_trailing_security_descriptors(short_s)
    /\ short_pc' = "truncate"
    /\ UNCHANGED <<short_in, short_out, remove_tokens>>

\* lines 312-313
TruncateAfterLegalSuffix ==
    /\ short_pc = "truncate"
    /\ short_s' = IF TRUNCATE_AFTER_LEGAL_SUFFIX
                  THEN truncate_after_legal_suffix(short_s) ELSE short_s
    /\ short_pc' = "tokens"
    /\ UNCHANGED <<short_in, short_out, remove_tokens>>

\* lines 315-316
RemoveSuffixTokens ==
    /\ short_pc = "tokens"
    /\ short_s' = IF remove_tokens
                  THEN remove_trailing_legal_suffix_tokens(short_s) ELSE short_s
    /\ short_pc' = "maxlen"
    /\ UNCHANGED <<short_in, short_out, remove_tokens>>

\* lines 318-319
EnforceMaxLen ==
    /\ short_pc = "maxlen"
    /\ short_s' = IF ENFORCE_MAX_NAME_LEN /\ MAX_NAME_LEN > 0
                  THEN enforce_max_len(short_s, MAX_NAME_LEN) ELSE short_s
    /\ short_pc' = "symbol"
    /\ UNCHANGED <<short_in, short_out, remove_tokens>>

\* line 338
StripTrailingSymbol ==
    /\ short_pc = "symbol"
    /\ short_s' = _strip_trailing_symbol(short_s)
    /\ short_pc' = "dotted"
    /\ UNCHANGED <<short_in, short_out, remove_tokens>>

\* lines 361-363: the last cleanup, and the return
StripTrailingDotted ==
    /\ short_pc = "dotted"
    /\ short_s' = _strip_trailing_dotted(short_s)
    /\ short_out' = Append(short_out, short_s')
    /\ short_pc' = "returned"
    /\ UNCHANGED <<short_in, remove_tokens>>

\* the script run on a file it wrote: OVERWRITE_NAME_COLUMN put the short name in the name
\* column, line 376 calls make_short_name with it
MakeShortNameAgain ==
    /\ short_pc = "returned"
    /\ Len(short_out) = 1
    /\ short_s' = short_out[1]
    /\ short_pc' = "descriptors"
    /\ UNCHANGED <<short_in, short_out, remove_tokens>>

(***************************************************************************)
(* run_all.py: the three scripts run one after the other, each a           *)
(* subprocess that reads one file and writes one file.  A file is the set  *)
(* of its columns: what a script does with its rows is in the sections     *)
(* above, here a script is the sequence of its statements that read, need  *)
(* columns, process and write.                                             *)
(***************************************************************************)
SCRIPTS == <<"clean_tickers.py", "enrich_sectors.py", "shorten_name.py">>

\* pick_name_column's candidates (NAME_COLUMN is None)
NameCandidates ==
    {"Security Name", "SecurityName", "Name", "Company Name", "Company", "Issuer",
     "Description", "description"}

\* clean_tickers.py, module body
CleanProgram ==
    [input |-> "tickers.csv", output |-> "tickers_clean.csv",
     steps |-> << [op |-> "read",     cols |-> {},                     what |-> "read_csv"],
                  [op |-> "need_all", cols |-> {"Name"},               what |-> "KeyError"],
                  [op |-> "core",     cols |-> {},                     what |-> "classification"],
                  [op |-> "core",     cols |-> {},                     what |-> "deduplication"],
                  [op |-> "need_all", cols |-> {"Last Sale", "Volume"}, what |-> "SystemExit"],
                  [op |-> "core",     cols |-> {},                     what |-> "liquidity"],
                  [op |-> "write",    cols |-> {},                     what |-> "to_csv"] >>]

\* enrich_sectors.py, main
EnrichProgram ==
    [input |-> "tickers_clean.csv", output |-> "clean_tickers_enriched.csv",
     steps |-> << [op |-> "read",     cols |-> {},                                what |-> "read_csv"],
                  [op |-> "need_all", cols |-> {"Symbol", "Sector", "Industry"}, what |-> "SystemExit"],
                  [op |-> "core",     cols |-> {},                                what |-> "enrichment"],
                  [op |-> "write",    cols |-> {},                                what |-> "to_csv"] >>]

\* shorten_name.py, main
ShortenProgram ==
    [input |-> "clean_tickers_enriched.csv", output |-> "clean_tickers_enriched_shortnames.csv",
     steps |-> << [op |-> "read",     cols |-> {},             what |-> "read_csv"],
                  [op |-> "need_any", cols |-> NameCandidates, what |-> "SystemExit"],
                  [op |-> "core",     cols |-> {},             what |-> "shortening"],
                  [op |-> "write",    cols |-> {},             what |-> "to_csv"] >>]

Programs == <<CleanProgram, EnrichProgram, ShortenProgram>>

\* lines 32-33
LastFile == "clean_tickers_enriched_shortnames.csv"
FinalFile == "final-tickers.csv"

\* the columns a listing can have
ListingColumns == {"Symbol", "Name", "Last Sale", "Volume", "Sector", "Industry"}

\* the files an earlier, complete run left in the directory
StaleFiles == {"tickers_clean.csv", "clean_tickers_enriched.csv", LastFile, FinalFile}

\* the directory before the run: tickers.csv with some of the columns or no tickers.csv, and
\* the files of an earlier run or none of them
InitialDirs ==
    {[f \in input \cup stale |-> IF f = "tickers.csv" THEN cols ELSE ListingColumns] :
        input \in {{}, {"tickers.csv"}}, stale \in {{}, StaleFiles}, cols \in SUBSET ListingColumns}

VARIABLES
    run_files,        \* the directory: file name -> columns, for the files that exist
    scripts_present,  \* the scripts that exist in SCRIPT_DIR
    run_pc,           \* where run_all's main is: loop, copy, done, raised
    run_ix,           \* the position of main's loop in SCRIPTS
    stage_step,       \* the subprocess: 0 none, k its next statement, Len + 1 exited 0, -1 died
    stage_cols,       \* the columns of the subprocess's df
    run_log           \* history: what ran, in order

run_vars == <<run_files, scripts_present, run_pc, run_ix, stage_step, stage_cols, run_log>>

RunIdle ==
    /\ run_files = <<>>
    /\ scripts_present = {}
    /\ run_pc = "idle"
    /\ run_ix = 0
    /\ stage_step = 0
    /\ stage_cols = {}
    /\ run_log = <<>>

RunInit ==
    /\ run_files \in InitialDirs
    /\ scripts_present \in SUBSET Range(SCRIPTS)
    /\ run_pc = "loop"
    /\ run_ix = 1
    /\ stage_step = 0
    /\ stage_cols = {}
    /\ run_log = <<>>

Event(script, ev, what) == [script |-> script, ev |-> ev, what |-> what]

Exited(program) == Len(program.steps) + 1
Died == -1

Running == run_pc = "loop" /\ run_ix \in 1..Len(SCRIPTS) /\ stage_step \in 1..Len(Programs[run_ix].steps)

CurrentStep == Programs[run_ix].steps[stage_step]

\* run_script up to subprocess.run: a missing script raises SystemExit
RunScript ==
    /\ run_pc = "loop"
    /\ run_ix \in 1..Len(SCRIPTS)
    /\ stage_step = 0
    /\ IF SCRIPTS[run_ix] \in scripts_present
       THEN /\ stage_step' = 1
            /\ run_log' = Append(run_log, Event(run_ix, "start", SCRIPTS[run_ix]))
            /\ UNCHANGED run_pc
       ELSE /\ run_pc' = "raised"
            /\ run_log' = Append(run_log, Event(run_ix, "missing_script", SCRIPTS[run_ix]))
            /\ UNCHANGED stage_step
    /\ UNCHANGED <<run_files, scripts_present, run_ix, stage_cols>>

\* pd.read_csv(INPUT): the file's columns, or FileNotFoundError
StageRead ==
    /\ Running
    /\ CurrentStep.op = "read"
    /\ IF Programs[run_ix].input \in DOMAIN run_files
       THEN /\ stage_cols' = run_files[Programs[run_ix].input]
            /\ stage_step' = stage_step + 1
            /\ UNCHANGED run_log
       ELSE /\ stage_step' = Died
            /\ run_log' = Append(run_log, Event(run_ix, "died", "FileNotFoundError"))
            /\ UNCHANGED stage_cols
    /\ UNCHANGED <<run_files, scripts_present, run_pc, run_ix>>

\* the columns the statement needs are there
HasColumns(step, cols) ==
    IF step.op = "need_all" THEN step.cols \subseteq cols ELSE step.cols \cap cols # {}

\* a statement that needs columns: df["Name"] (clean_tickers.py line 51), the required_cols
\* check (lines 109-112), main's required check (enrich_sectors.py lines 298-301),
\* pick_name_column (shorten_name.py lines 372-374)
StageNeed ==
    /\ Running
    /\ CurrentStep.op \in {"need_all", "need_any"}
    /\ IF HasColumns(CurrentStep, stage_cols)
       THEN /\ stage_step' = stage_step + 1
            /\ UNCHANGED run_log
       ELSE /\ stage_step' = Died
            /\ run_log' = Append(run_log, Event(run_ix, "died", CurrentStep.what))
    /\ UNCHANGED <<run_files, scripts_present, run_pc, run_ix, stage_cols>>

\* a processing step of the script
StageCore ==
    /\ Running
    /\ CurrentStep.op = "core"
    /\ stage_step' = stage_step + 1
    /\ run_log' = Append(run_log, Event(run_ix, "core", CurrentStep.what))
    /\ UNCHANGED <<run_files, scripts_present, run_pc, run_ix, stage_cols>>

\* df.to_csv(OUTPUT, index=False): the helper columns are dropped, the file has the columns
\* that were read
StageWrite ==
    /\ Running
    /\ CurrentStep.op = "write"
    /\ run_files' = [f \in DOMAIN run_files \cup {Programs[run_ix].output} |->
                        IF f = Programs[run_ix].output THEN stage_cols ELSE run_files[f]]
    /\ stage_step' = stage_step + 1
    /\ run_log' = Append(run_log, Event(run_ix, "write", Programs[run_ix].output))
    /\ UNCHANGED <<scripts_present, run_pc, run_ix, stage_cols>>

\* subprocess.run(..., check=False): the loop goes on whatever the script returned
AfterScriptUnchecked(ix, died) ==
    IF ix = Len(SCRIPTS) THEN [pc |-> "copy", ix |-> ix] ELSE [pc |-> "loop", ix |-> ix + 1]

\* subprocess.run(..., check=True) and the for loop: CalledProcessError ends main
AfterScript(ix, died) ==
    IF died THEN [pc |-> "raised", ix |-> ix]
    ELSE IF ix = Len(SCRIPTS) THEN [pc |-> "copy", ix |-> ix]
    ELSE [pc |-> "loop", ix |-> ix + 1]

\* the subprocess has ended
ScriptReturned ==
    /\ run_pc = "loop"
    /\ run_ix \in 1..Len(SCRIPTS)
    /\ stage_step \in {Died, Exited(Programs[run_ix])}
    /\ run_pc' = AfterScript(run_ix, stage_step = Died).pc
    /\ run_ix' = AfterScript(run_ix, stage_step = Died).ix
    /\ stage_step' = 0
    /\ stage_cols' = {}
    /\ run_log' = Append(run_log, Event(run_ix, "returned", IF stage_step = Died THEN "1" ELSE "0"))
    /\ UNCHANGED <<run_files, scripts_present>>

\* lines 32-41
CopyFinal ==
    /\ run_pc = "copy"
    /\ IF LastFile \in DOMAIN run_files
       THEN /\ run_files' = [f \in DOMAIN run_files \cup {FinalFile} |->
                                IF f = FinalFile THEN run_files[LastFile] ELSE run_files[f]]
            /\ run_log' = Append(run_log, Event(0, "write", FinalFile))
       ELSE /\ run_log' = Append(run_log, Event(0, "warning", LastFile))
            /\ UNCHANGED run_files
    /\ run_pc' = "done"
    /\ UNCHANGED <<scripts_present, run_ix, stage_step, stage_cols>>

(***************************************************************************)
(* enrich_from_reference, lines 127-130, on the tables a source can hand   *)
(* it: several records for one symbol, symbols in either case, no symbol.  *)
(***************************************************************************)
MaxDupRows == 3

RefSymbols == {NA, "aaa", "AAA ", "bbb"}

RefRecords == [Symbol : RefSymbols, Sector : {"Financials", "Information Technology"},
               Industry : {"Banks", "Software"}]

RefTables == UNION {[1..n -> RefRecords] : n \in 0..MaxDupRows}

VARIABLES
    ref_table,   \* the ref_df enrich_from_reference is called with
    ref_keyed    \* its ref_map once line 130 has run: <<ref_map>>, before that <<>>

ref_vars == <<ref_table, ref_keyed>>

RefIdle ==
    /\ ref_table = <<>>
    /\ ref_keyed = <<"idle">>

RefInit ==
    /\ ref_table \in RefTables
    /\ ref_keyed = <<>>

\* lines 127-130
BuildRefMap ==
    /\ ref_keyed = <<>>
    /\ ref_keyed' = <<RefMapOf(ref_table)>>
    /\ UNCHANGED ref_table

EnrichIdle ==
    /\ input_csv = <<>>
    /\ df = <<>>
    /\ df_work = <<>>
    /\ allowed_sectors = <<>>
    /\ pc = "idle"
    /\ src = 0
    /\ ref_map = <<>>
    /\ cursor = 0
    /\ filled = 0
    /\ filled_total = 0
    /\ status = "none"
    /\ removed = 0
    /\ output_csv = NoFile
    /\ hist = [firstSec |-> <<>>, firstInd |-> <<>>]

(***************************************************************************)
(* Specifications: one per script / function                               *)
(***************************************************************************)
vars == <<enrich_vars, clean_vars, norm_vars, short_vars, run_vars, ref_vars>>

\* enrich_sectors.py
Init == EnrichInit /\ CleanIdle /\ NormIdle /\ ShortIdle /\ RunIdle /\ RefIdle

Next ==
    \/ MainStart /\ UNCHANGED <<clean_vars, norm_vars, short_vars, run_vars, ref_vars>>
    \/ MainEarlyExit /\ UNCHANGED <<clean_vars, norm_vars, short_vars, run_vars, ref_vars>>
    \/ SourceSkipped /\ UNCHANGED <<clean_vars, norm_vars, short_vars, run_vars, ref_vars>>
    \/ SourceFetched /\ UNCHANGED <<clean_vars, norm_vars, short_vars, run_vars, ref_vars>>
    \/ EnrichRow /\ UNCHANGED <<clean_vars, norm_vars, short_vars, run_vars, ref_vars>>
    \/ SourcePassed /\ UNCHANGED <<clean_vars, norm_vars, short_vars, run_vars, ref_vars>>
    \/ MergeBack /\ UNCHANGED <<clean_vars, norm_vars, short_vars, run_vars, ref_vars>>
    \/ DropAndWrite /\ UNCHANGED <<clean_vars, norm_vars, short_vars, run_vars, ref_vars>>

Spec == Init /\ [][Next]_vars

\* clean_tickers.py
InitClean == CleanInit /\ EnrichIdle /\ NormIdle /\ ShortIdle /\ RunIdle /\ RefIdle

NextClean ==
    \/ CleanLoad /\ UNCHANGED <<enrich_vars, norm_vars, short_vars, run_vars, ref_vars>>
    \/ CleanExclude /\ UNCHANGED <<enrich_vars, norm_vars, short_vars, run_vars, ref_vars>>
    \/ CleanInclude /\ UNCHANGED <<enrich_vars, norm_vars, short_vars, run_vars, ref_vars>>
    \/ CleanKeys /\ UNCHANGED <<enrich_vars, norm_vars, short_vars, run_vars, ref_vars>>
    \/ CleanDedup /\ UNCHANGED <<enrich_vars, norm_vars, short_vars, run_vars, ref_vars>>
    \/ CleanLiquidity /\ UNCHANGED <<enrich_vars, norm_vars, short_vars, run_vars, ref_vars>>
    \/ CleanWrite /\ UNCHANGED <<enrich_vars, norm_vars, short_vars, run_vars, ref_vars>>

SpecClean == InitClean /\ [][NextClean]_vars

\* normalize_sector_to_allowed
InitNorm == NormInit /\ EnrichIdle /\ CleanIdle /\ ShortIdle /\ RunIdle /\ RefIdle

NextNorm == NormalizeCall /\ UNCHANGED <<enrich_vars, clean_vars, short_vars, run_vars, ref_vars>>

SpecNorm == InitNorm /\ [][NextNorm]_vars

\* make_short_name
InitShort == ShortInit /\ EnrichIdle /\ CleanIdle /\ NormIdle /\ RunIdle /\ RefIdle

NextShort ==
    \/ StripDescriptors /\ UNCHANGED <<enrich_vars, clean_vars, norm_vars, run_vars, ref_vars>>
    \/ TruncateAfterLegalSuffix /\ UNCHANGED <<enrich_vars, clean_vars, norm_vars, run_vars, ref_vars>>
    \/ RemoveSuffixTokens /\ UNCHANGED <<enrich_vars, clean_vars, norm_vars, run_vars, ref_vars>>
    \/ EnforceMaxLen /\ UNCHANGED <<enrich_vars, clean_vars, norm_vars, run_vars, ref_vars>>
    \/ StripTrailingSymbol /\ UNCHANGED <<enrich_vars, clean_vars, norm_vars, run_vars, ref_vars>>
    \/ StripTrailingDotted /\ UNCHANGED <<enrich_vars, clean_vars, norm_vars, run_vars, ref_vars>>
    \/ MakeShortNameAgain /\ UNCHANGED <<enrich_vars, clean_vars, norm_vars, run_vars, ref_vars>>

SpecShort == InitShort /\ [][NextShort]_vars

\* run_all.py
InitRun == RunInit /\ EnrichIdle /\ CleanIdle /\ NormIdle /\ ShortIdle /\ RefIdle

NextRun ==
    \/ RunScript /\ UNCHANGED <<enrich_vars, clean_vars, norm_vars, short_vars, ref_vars>>
    \/ StageRead /\ UNCHANGED <<enrich_vars, clean_vars, norm_vars, short_vars, ref_vars>>
    \/ StageNeed /\ UNCHANGED <<enrich_vars, clean_vars, norm_vars, short_vars, ref_vars>>
    \/ StageCore /\ UNCHANGED <<enrich_vars, clean_vars, norm_vars, short_vars, ref_vars>>
    \/ StageWrite /\ UNCHANGED <<enrich_vars, clean_vars, norm_vars, short_vars, ref_vars>>
    \/ ScriptReturned /\ UNCHANGED <<enrich_vars, clean_vars, norm_vars, short_vars, ref_vars>>
    \/ CopyFinal /\ UNCHANGED <<enrich_vars, clean_vars, norm_vars, short_vars, ref_vars>>

SpecRun == InitRun /\ [][NextRun]_vars

\* enrich_from_reference's ref_map
InitRef == RefInit /\ EnrichIdle /\ CleanIdle /\ NormIdle /\ ShortIdle /\ RunIdle

NextRef == BuildRefMap /\ UNCHANGED <<enrich_vars, clean_vars, norm_vars, short_vars, run_vars>>

SpecRef == InitRef /\ [][NextRef]_vars

(***************************************************************************)
(* Claims about the enrichment stage (checked under Spec).                 *)
(***************************************************************************)
KeepsFilled(before, after) ==
    \A i \in DOMAIN before \cap DOMAIN after :
        /\ ~IsMissing(before[i].Sector) => after[i].Sector = before[i].Sector
        /\ ~IsMissing(before[i].Industry) => after[i].Industry = before[i].Industry

\* the row of the working frame the running pass has just handled
LastVisited == WorkIdx[cursor - 1]
JustVisited == pc = "rows" /\ cursor > 1

\* C1: a Sector or Industry cell that is non-empty keeps its value through every step of
\* every pass (in df_work and in df), and the table main ends with holds, in every row it
\* keeps, every non-empty Sector and Industry of the input.
C1_NoOverwrite ==
    /\ [][KeepsFilled(df_work, df_work') /\ KeepsFilled(df, df')]_vars
    /\ [](pc = "done" => KeepsFilled(input_csv, df))

\* C1 witness: a pass has handled a row whose Sector was there from the input, the source
\* gave a different mapped sector for it, the row's Industry was filled, its Sector stands.
C1_Witness ==
    /\ JustVisited
    /\ LET row == df_work[LastVisited]
       IN /\ row.Symbol \in DOMAIN ref_map
          /\ ~IsMissing(input_csv[LastVisited].Sector)
          /\ normalize_sector_to_allowed(ref_map[row.Symbol].Sector, allowed_sectors)
                \notin {NA, input_csv[LastVisited].Sector}
          /\ IsMissing(input_csv[LastVisited].Industry)
          /\ ~IsMissing(row.Industry)
          /\ row.Sector = input_csv[LastVisited].Sector

\* C2: a step writes a row's Industry only in a pass of a source that is not sector-only and
\* only when the row's Sector is, after that step, non-empty with its normalized form in the
\* allowed set; a work row whose Sector is missing still has the Industry of the input.
C2_IndustryGuard ==
    /\ [][\A i \in DOMAIN df_work \cap DOMAIN df_work' :
            df_work'[i].Industry # df_work[i].Industry =>
                /\ pc = "rows"
                /\ Sources[src].allow_new_industry
                /\ ~IsMissing(df_work'[i].Sector)
                /\ norm_lower(df_work'[i].Sector)
                      \in {norm_lower(allowed_sectors[k]) : k \in 1..Len(allowed_sectors)}]_vars
    /\ [](\A i \in DOMAIN df_work :
            IsMissing(df_work[i].Sector) => df_work[i].Industry = input_csv[i].Industry)

\* C2 witness: a pass of a source that may give industries has handled a row, the source has
\* an industry for it but no sector that maps, and the row still misses Sector and Industry.
C2_Witness ==
    /\ JustVisited
    /\ Sources[src].allow_new_industry
    /\ LET row == df_work[LastVisited]
       IN /\ row.Symbol \in DOMAIN ref_map
          /\ norm(ref_map[row.Symbol].Industry) # NA
          /\ ref_map[row.Symbol].Sector # NA
          /\ IsMissing(row.Sector)
          /\ IsMissing(row.Industry)

\* C3: the step in which a phase ends by an exception changes no cell and no fill count, and
\* leaves main at the next phase in the order (or, after the last one, at the merge).
C3_FailureIsolated ==
    [][(pc = "fetch" /\ status' = "failed" /\ <<pc, src>>' # <<pc, src>>) =>
          /\ df_work' = df_work
          /\ df' = df
          /\ filled_total' = filled_total
          /\ src' = src + 1
          /\ pc' = IF src = NumSources THEN "merge" ELSE "fetch"]_vars

\* C3 witness: a phase other than the first has just failed, cells filled by earlier sources
\* are in place, and a later phase is about to run.
C3_Witness ==
    /\ status = "failed"
    /\ pc = "fetch"
    /\ src \in 3..NumSources
    /\ filled_total > 0
    /\ \E i \in DOMAIN df_work : df_work[i] # df[i]

\* C4: main moves from a source to the next one only, and only from a phase that made no pass
\* or from a pass whose loop has handled every work row; and at all times a work cell missing
\* in the input holds the value of the first source, in that order, that could give one
\* (hist), or is still as in the input when none could yet.
C4_PriorityOrder ==
    /\ [][src' # src =>
            /\ src' = src + 1
            /\ \/ pc \in {"start", "fetch"}
               \/ pc = "rows" /\ cursor = Len(WorkIdx) + 1]_vars
    /\ [](/\ \A i \in DOMAIN hist.firstSec :
                df_work[i].Sector = IF hist.firstSec[i] = NA THEN input_csv[i].Sector
                                    ELSE hist.firstSec[i]
          /\ \A i \in DOMAIN hist.firstInd :
                df_work[i].Industry = IF hist.firstInd[i] = NA THEN input_csv[i].Industry
                                      ELSE hist.firstInd[i])

\* C4 witness: a pass of a later source has handled a row for which it has an industry other
\* than the one an earlier source gave; the row holds the earlier one.
C4_Witness ==
    /\ JustVisited
    /\ src > 1
    /\ LastVisited \in DOMAIN hist.firstInd
    /\ LET row == df_work[LastVisited]
       IN /\ row.Symbol \in DOMAIN ref_map
          /\ norm(ref_map[row.Symbol].Industry) \notin {NA, hist.firstInd[LastVisited]}
          /\ hist.firstInd[LastVisited] # NA
          /\ row.Industry = hist.firstInd[LastVisited]

\* the table after all sources ran, from the input and the working frame
MergedRow(i) ==
    IF i \in DOMAIN df_work THEN df_work[i]
    ELSE [input_csv[i] EXCEPT !.Symbol = Strip(Upper(@))]

\* C9: when main is done the output file is written, each of its rows has a Sector and an
\* Industry, its rows are the rows of the merged table that miss neither, in input order,
\* and the reported count is the number of the others.
C9_CompleteOutput ==
    pc = "done" =>
        LET kept == SortedIdx({i \in 1..Len(input_csv) : ~RowMissingEither(MergedRow(i))})
        IN /\ output_csv.written
           /\ \A k \in 1..Len(output_csv.rows) :
                 ~IsMissing(output_csv.rows[k].Sector) /\ ~IsMissing(output_csv.rows[k].Industry)
           /\ Len(output_csv.rows) = Len(kept)
           /\ \A k \in 1..Len(kept) : output_csv.rows[k] = MergedRow(kept[k])
           /\ removed = Len(input_csv) - Len(kept)

\* C9 witness: after passes that filled cells, the drop stage removed a row and kept a row
\* that was incomplete in the input.
C9_Witness ==
    /\ pc = "done"
    /\ filled_total > 0
    /\ removed > 0
    /\ \E k \in 1..Len(output_csv.rows) : \E i \in 1..Len(input_csv) :
          /\ output_csv.rows[k].Symbol = Strip(Upper(input_csv[i].Symbol))
          /\ RowMissingEither(input_csv[i])

(***************************************************************************)
(* Claims about the cleaning stage (checked under SpecClean).              *)
(***************************************************************************)
\* the frame's rows of one company_key
SameKey(frame, key) == {b \in 1..Len(frame) : frame[b].company_key = key}

DistinctKeys(frame) ==
    \A a, b \in 1..Len(frame) : a # b => frame[a].company_key # frame[b].company_key

\* C5: the deduplication step does not lengthen the frame; the frame it leaves has no two
\* rows of one company_key; each row it leaves is a row of the frame it got, of the lowest
\* class_rank among that frame's rows of the same key, wherever those rows stood; each key
\* keeps a row; and no later step brings a key back twice.
C5_Dedup ==
    /\ [][cpc = "dedup" =>
            /\ Len(cdf') <= Len(cdf)
            /\ DistinctKeys(cdf')
            /\ \A a \in 1..Len(cdf') :
                  /\ cdf'[a] \in Range(cdf)
                  /\ \A b \in SameKey(cdf, cdf'[a].company_key) :
                        cdf'[a].class_rank <= cdf[b].class_rank
            /\ \A b \in 1..Len(cdf) : SameKey(cdf', cdf[b].company_key) # {}]_vars
    /\ [](cpc \in {"liquidity", "write", "done"} => DistinctKeys(cdf))

\* C5 witness: the input held the class-B row of an issuer before its class-A row, and the
\* deduplication left the class-A row and not the class-B row.
C5_Witness ==
    /\ cpc = "liquidity"
    /\ \E i, j \in 1..Len(tickers_csv) :
          /\ i < j
          /\ tickers_csv[i].Name = "Acme Corp Class B Common Stock"
          /\ tickers_csv[j].Name = "Acme Corp Class A Common Stock"
          /\ \E a \in 1..Len(cdf) : cdf[a].id = j
          /\ \A a \in 1..Len(cdf) : cdf[a].id # i

\* C6: among the rows of one company_key and one class_rank the deduplication step leaves
\* the one that stood first in the input.
C6_TieBreakStable ==
    [][cpc = "dedup" =>
         \A a \in 1..Len(cdf') :
            \A b \in SameKey(cdf, cdf'[a].company_key) :
               cdf[b].class_rank = cdf'[a].class_rank => cdf'[a].id <= cdf[b].id]_vars

\* the classification of a name as the cleaning stage's two filters apply it
Retained(name) ==
    /\ name # NA
    /\ LET lowered == Lower(name)
       IN /\ \A k \in 1..Len(exclude_keywords) : ~Contains(lowered, exclude_keywords[k])
          /\ \E k \in 1..Len(include_phrases) : Contains(lowered, include_phrases[k])

\* C7: after the two filters the frame holds, in input order, the input rows whose
\* lower-cased name has no exclusion keyword as a substring and has an inclusion phrase;
\* a name with an exclusion keyword is out whatever else it holds, and so is an absent or
\* an empty name; rows of one name are classified alike; no other row is ever in the frame
\* afterwards.
C7_Classification ==
    LET ids == [a \in 1..Len(cdf) |-> cdf[a].id]
        kept == {i \in 1..Len(tickers_csv) : Retained(tickers_csv[i].Name)}
    IN /\ cpc = "keys" => ids = SortedIdx(kept)
       /\ cpc \in {"keys", "dedup", "liquidity", "write", "done"} =>
             /\ Range(ids) \subseteq kept
             /\ \A a \in 1..Len(cdf) :
                   /\ cdf[a].Name \notin {NA, ""}
                   /\ \A k \in 1..Len(exclude_keywords) :
                         ~Contains(cdf[a].name_norm, exclude_keywords[k])
       /\ cpc = "keys" =>
             \A i, j \in 1..Len(tickers_csv) :
                tickers_csv[i].Name = tickers_csv[j].Name =>
                   (i \in Range(ids) <=> j \in Range(ids))

\* C7 witness: the filters ran on an input with a name that holds an exclusion keyword and
\* an inclusion phrase, an absent name, and a name retained through its upper-case letters;
\* the first two are out and the third is in.
C7_Witness ==
    /\ cpc = "keys"
    /\ \E i, j, k \in 1..Len(tickers_csv) :
          /\ tickers_csv[i].Name = "Unity Inc Common Stock"
          /\ tickers_csv[j].Name = NA
          /\ tickers_csv[k].Name = "ACME CORP  Common Shares"
          /\ \A a \in 1..Len(cdf) : cdf[a].id \notin {i, j}
          /\ \E a \in 1..Len(cdf) : cdf[a].id = k

(***************************************************************************)
(* Claims about normalize_sector_to_allowed (checked under SpecNorm).      *)
(***************************************************************************)
\* a label or a value as the comparisons see it: trimmed and lower-cased
Folded(x) == Lower(Strip(x))

\* the words of a folded text, "&" and "/" separating like blanks
WordsOf(x) == {w \in Range(SplitBlank(Replace(Replace(x, "&", " "), "/", " "))) : w # ""}

\* C10: a returned call of normalize_sector_to_allowed gave, for a blank or absent value, no
\* match; else an allowed label equal to the value up to case and outer blanks, if there is
\* one; else, if some entry of the keyword table has a key inside the value and its
\* canonical label allowed, the allowed form of the first such entry's label (an entry
\* whose label is not allowed gives nothing); else the first allowed label, in list order,
\* among those sharing the most words with the value, if they share one at least; else no
\* match. "Information Technology" gives "Technology" when "Technology" is allowed and no
\* allowed label is "Information Technology" itself; "Zzqq Nonsense" gives no match.
C10_Precedence ==
    norm_out # <<>> =>
        LET value == norm_in.value
            allowed == norm_in.allowed_sectors
            out == norm_out[1]
            blank == value = NA \/ Strip(value) = ""
            v == Folded(value)
            idx == {i \in 1..Len(allowed) : Strip(allowed[i]) # ""}
            exact == {i \in idx : Folded(allowed[i]) = v}
            AllowedAs(label) == {i \in 1..Len(allowed) : Folded(allowed[i]) = Folded(label)}
            entries == {k \in 1..Len(keyword_map) :
                          /\ \E j \in 1..Len(keyword_map[k].keys) :
                                Contains(v, keyword_map[k].keys[j])
                          /\ AllowedAs(keyword_map[k].target) # {}}
            Shared(i) == Cardinality(WordsOf(v) \cap WordsOf(Folded(allowed[i])))
            most == MaxOf({Shared(i) : i \in idx} \cup {0})
        IN /\ IF blank THEN out = NA
              ELSE IF exact # {} THEN \E i \in exact : out = allowed[i]
              ELSE IF entries # {}
                   THEN out = allowed[MinOf(AllowedAs(keyword_map[MinOf(entries)].target))]
              ELSE IF most >= 1 THEN out = allowed[MinOf({i \in idx : Shared(i) = most})]
              ELSE out = NA
           /\ out # NA => out \in Range(allowed)
           /\ (value = "Information Technology" /\ "Technology" \in Range(allowed)
                  /\ "Information Technology" \notin Range(allowed)) => out = "Technology"
           /\ value = "Zzqq Nonsense" => out = NA

\* C10 witness: a call returned for a value with no exact and no keyword match that shares
\* one word with each of two allowed labels, and gave the one that stands first.
C10_Witness ==
    /\ norm_out # <<>>
    /\ norm_in.value = "Consumer Goods"
    /\ \E i, j \in 1..Len(norm_in.allowed_sectors) :
          /\ i < j
          /\ {norm_in.allowed_sectors[i], norm_in.allowed_sectors[j]}
                = {"Consumer Services", "Consumer Durables"}
          /\ norm_out[1] = norm_in.allowed_sectors[i]

(***************************************************************************)
(* Claims about make_short_name (checked under SpecShort).                 *)
(***************************************************************************)
\* C8: make_short_name called with a name it returned returns that name.
C8_Idempotent ==
    Len(short_out) = 2 => short_out[2] = short_out[1]

(***************************************************************************)
(* Claims about the run of the three scripts (checked under SpecRun).      *)
(***************************************************************************)
\* the events of script ix in the history
EventsOf(ix) == {run_log[k] : k \in {j \in DOMAIN run_log : run_log[j].script = ix}}

\* script ix needs a column that cols does not have
RequiredMissing(ix, cols) ==
    \E k \in DOMAIN Programs[ix].steps :
        /\ Programs[ix].steps[k].op \in {"need_all", "need_any"}
        /\ ~HasColumns(Programs[ix].steps[k], cols)

\* script ix is running and has read a file that lacks a column it needs
RunsWithoutRequired(ix) ==
    /\ run_pc = "loop"
    /\ run_ix = ix
    /\ stage_step \notin {0, 1}
    /\ Programs[ix].input \in DOMAIN run_files
    /\ RequiredMissing(ix, run_files[Programs[ix].input])

\* C11: a script whose input lacks a required column stops before any of its processing
\* steps (classification, deduplication, enrichment, shortening) has run and without writing
\* its output: it never exits with success, and its history holds no processing step and no
\* write.
C11_FatalBeforeCore ==
    \A ix \in DOMAIN SCRIPTS :
        RunsWithoutRequired(ix) =>
            /\ stage_step # Exited(Programs[ix])
            /\ \A e \in EventsOf(ix) : e.ev \notin {"core", "write"}

\* script ix has returned 0 before position k of the history
ReturnedBefore(ix, k) == \E j \in 1..(k - 1) : run_log[j] = Event(ix, "returned", "0")

\* the positions of the history where file is written
WritesOf(file) == {k \in DOMAIN run_log : run_log[k].ev = "write" /\ run_log[k].what = file}

\* the scripts start in the order of SCRIPTS, each at most once and only after every earlier
\* one has returned 0: a script that fails is the last one to start
InOrder ==
    \A k \in DOMAIN run_log :
        run_log[k].ev = "start" =>
            /\ \A ix \in 1..(run_log[k].script - 1) : ReturnedBefore(ix, k)
            /\ \A j \in 1..(k - 1) : ~(run_log[j].ev = "start" /\ run_log[j].script = run_log[k].script)

\* the final output is written once, when all stages have done their work: the last script's
\* file after the scripts before it returned 0 and its own processing ran, the copy
\* final-tickers.csv after all three returned 0
FinalOnceAfterAll ==
    /\ Cardinality(WritesOf(LastFile)) <= 1
    /\ Cardinality(WritesOf(FinalFile)) <= 1
    /\ \A k \in WritesOf(LastFile) :
          /\ \A ix \in 1..(Len(SCRIPTS) - 1) : ReturnedBefore(ix, k)
          /\ \E j \in 1..(k - 1) : run_log[j] = Event(Len(SCRIPTS), "core", "shortening")
    /\ \A k \in WritesOf(FinalFile) : \A ix \in DOMAIN SCRIPTS : ReturnedBefore(ix, k)

\* a script of the run failed
StageFailed == \E k \in DOMAIN run_log : run_log[k].ev \in {"died", "missing_script"}

\* C12 as stated: the stages run in order, a failing stage stops the run, the output is
\* written once after all stages completed, and a run in which a stage failed has written no
\* output file at all.
C12_NoFileOnFailure ==
    /\ InOrder
    /\ FinalOnceAfterAll
    /\ StageFailed => \A k \in DOMAIN run_log : run_log[k].ev # "write"

\* C12, amended: the stages run in order, a failing stage stops the run, the final output is
\* written once after all stages completed, and a run in which a stage failed has written
\* neither the final output nor anything from the stage that failed; what it has written are
\* the files of the stages that returned 0 before the failure.
C12_FinalOnlyOnSuccess ==
    /\ InOrder
    /\ FinalOnceAfterAll
    /\ StageFailed =>
          /\ WritesOf(LastFile) = {}
          /\ WritesOf(FinalFile) = {}
          /\ \A k \in DOMAIN run_log :
                run_log[k].ev = "write" =>
                    \E j \in DOMAIN run_log : j > k /\ run_log[j] = Event(run_log[k].script, "returned", "0")

\* the run was stopped by the second script's failure after the first had written its file
C12_Witness ==
    /\ run_pc = "raised"
    /\ WritesOf("tickers_clean.csv") # {}
    /\ \E k \in DOMAIN run_log : run_log[k].ev = "died" /\ run_log[k].script = 2

(***************************************************************************)
(* Claims about make_short_name (checked under SpecShort).                 *)
(***************************************************************************)
FormFactor == "FormFactor, Inc. Common Stock"

\* C13: the listing "FormFactor, Inc. Common Stock" passes both filters of the cleaning
\* stage, its company key is "formfactor, inc.", and make_short_name returns "FormFactor"
\* for it when trailing legal-suffix tokens are removed and "FormFactor Inc" when they are
\* not (truncation after the legal suffix alone).
C13_FormFactor ==
    (short_in = FormFactor /\ short_pc = "returned" /\ Len(short_out) = 1) =>
        /\ ~ReSearchAlt(NameNorm(short_in), exclude_keywords)
        /\ ReSearchAlt(NameNorm(short_in), include_phrases)
        /\ normalize_company(NameNorm(short_in)) = "formfactor, inc."
        /\ short_out[1] = IF remove_tokens THEN "FormFactor" ELSE "FormFactor Inc"

\* C16: with ENFORCE_MAX_NAME_LEN on, every name make_short_name returns has at most
\* MAX_NAME_LEN characters: s is within the limit once line 319 has run, and the two
\* cleanups after it never make it longer.
C16_BoundedLength ==
    ENFORCE_MAX_NAME_LEN =>
        /\ short_pc \in {"symbol", "dotted", "returned"} => Len(short_s) <= MAX_NAME_LEN
        /\ \A k \in DOMAIN short_out : Len(short_out[k]) <= MAX_NAME_LEN

\* a name longer than the limit went in and came back cut at the limit
C16_Witness ==
    /\ short_pc = "returned"
    /\ Len(short_in) > MAX_NAME_LEN
    /\ Len(short_out) >= 1
    /\ short_out[1] = SubSeq(short_in, 1, MAX_NAME_LEN)

(***************************************************************************)
(* Claims about ref_map (checked under SpecRef).                           *)
(***************************************************************************)
\* the records of ref_table that carry symbol s once upper-cased and trimmed, by position
RecordsOf(s) ==
    {i \in DOMAIN ref_table :
        ref_table[i].Symbol # NA /\ Strip(Upper(ref_table[i].Symbol)) = s}

\* the symbols ref_table has records for
KeyedSymbols == {Strip(Upper(ref_table[i].Symbol)) : i \in {j \in DOMAIN ref_table : ref_table[j].Symbol # NA}}

\* ref_map is keyed by the symbols of the table, and gives for each of them the sector and
\* the industry of record pick(positions of its records)
KeyedBy(pick(_)) ==
    ref_keyed # <<>> =>
        /\ DOMAIN ref_keyed[1] = KeyedSymbols
        /\ \A s \in KeyedSymbols :
              /\ ref_keyed[1][s].Sector = ref_table[pick(RecordsOf(s))].Sector
              /\ ref_keyed[1][s].Industry = ref_table[pick(RecordsOf(s))].Industry

\* C14 as stated: within one source the records are keyed by the upper-cased, trimmed symbol,
\* and of several records for one symbol the last one gives the sector and the industry.
C14_LastWins == KeyedBy(MaxOf)

\* C14, amended: within one source the records are keyed by the upper-cased, trimmed symbol,
\* and of several records for one symbol the first one gives the sector and the industry.
C14_FirstWins == KeyedBy(MinOf)

\* a table with two records for one symbol that differ, keyed
C14_Witness ==
    /\ ref_keyed # <<>>
    /\ \E s \in KeyedSymbols :
          \E i, j \in RecordsOf(s) :
              /\ i < j
              /\ ref_table[i].Symbol # ref_table[j].Symbol
              /\ ref_table[i].Sector # ref_table[j].Sector
              /\ ref_table[i].Industry # ref_table[j].Industry

(***************************************************************************)
(* Claims about the sector vocabulary (checked under Spec).                *)
(***************************************************************************)
\* the sector labels a frame holds: the Sector cells that are not missing
SectorLabels(frame) == {frame[i].Sector : i \in {j \in DOMAIN frame : ~IsMissing(frame[j].Sector)}}

\* once main has read the table, allowed_sectors holds the labels of the input, and every
\* label of df, of df_work and of the written file is one of them
ClosedVocabulary ==
    pc # "start" =>
        /\ Range(allowed_sectors) = SectorLabels(input_csv)
        /\ SectorLabels(df) \subseteq Range(allowed_sectors)
        /\ SectorLabels(df_work) \subseteq Range(allowed_sectors)
        /\ output_csv.written => SectorLabels(output_csv.rows) \subseteq SectorLabels(input_csv)

\* C15: allowed_sectors is computed once from the table, before any source runs, and never
\* changes afterwards; after any sequence of source passes every Sector of the table that
\* is not empty is one of its labels, so the labels of the output are labels of the input.
C15_ClosedVocabulary ==
    /\ []ClosedVocabulary
    /\ [][pc # "start" => allowed_sectors' = allowed_sectors]_vars

\* the file is written with a row whose Sector was missing in the input and which a
\* source pass filled in with a label of the input
C15_Witness ==
    /\ pc = "done"
    /\ \E k \in DOMAIN output_csv.rows : \E i \in DOMAIN input_csv :
          /\ output_csv.rows[k].Symbol = Strip(Upper(input_csv[i].Symbol))
          /\ IsMissing(input_csv[i].Sector)
          /\ output_csv.rows[k].Sector \in SectorLabels(input_csv)

====
